---- MODULE Spec2Model ----
(***************************************************************************)
(* Model of jina/drivers/dump.py: DumpPersistor.export_dump_streaming and  *)
(* the lazy readers import_vectors / import_metas with their generators    *)
(* _ids_gen, _vecs_gen and _metas_gen.                                     *)
(*                                                                         *)
(* A file is the sequence of its bytes (vectors, metas) or of its          *)
(* characters (ids).  A float64 element is the sequence of its 8 bytes, so *)
(* that ndarray.tobytes() is a concatenation and np.frombuffer() a cut     *)
(* into groups of 8 that fails on a length that is no multiple of 8.       *)
(* sys.byteorder is taken to be 'little'.  A write reaches the file when   *)
(* it is issued (the buffer of a Python file object is flushed when the    *)
(* object is closed or finalised).  A generator that is no longer          *)
(* referenced is finalised at once, as CPython's reference counting does:  *)
(* its with block is left and its file closed.                             *)
(***************************************************************************)
EXTENDS Integers, Sequences, FiniteSets, TLC

VARIABLES
    rootExists,   \* os.path.exists(path)
    fs,           \* the shard directories under path and their three files
    shards,       \* argument shards of export_dump_streaming
    size,         \* argument size
    data,         \* the records the argument data can still be asked for, in order
    cursor,       \* number of successful next(data) so far
    pc,           \* position of export_dump_streaming
    loc,          \* its locals
    wh,           \* the write handles it holds open, as <<shard, file>>
    exc,          \* the exception it raised, "none" if none
    gens,         \* the generators handed out by import_vectors / import_metas
    rh            \* the read handles that are open, as <<call, generator>>

vars == <<rootExists, fs, shards, size, data, cursor, pc, loc, wh, exc, gens, rh>>

(***************************************************************************)
(* Bounds.                                                                 *)
(***************************************************************************)
MaxSize == 3      \* size and the length of data range over 0..MaxSize
MaxShards == 3    \* shards ranges over 1..MaxShards
MaxOnDisk == 2    \* records of a shard that a reader is started on

\* The import calls whose generators are alive side by side.  A call made
\* again under the same name replaces the generators of the earlier one.
Calls == {1, 2}

BYTE_PADDING == 4

ShardIds == 0 .. (MaxShards - 1)
FileNames == {"ids", "vectors", "metas"}

(***************************************************************************)
(* Values: float64 elements by their bytes, records of the data source.    *)
(***************************************************************************)
F64(b) == <<b, 0, 0, 0, 0, 0, 240, 63>>

Whitespace == {" ", "\t", "\n", "\r"}

Rec(i, v, m) == [id |-> i, vec |-> v, meta |-> m]

\* The records a source may yield: two ordinary ones that differ in every
\* field, one with an empty vector, one with empty metadata, one whose id
\* starts with a space and ends with a tab, one whose id holds a line break.
Records ==
    { Rec(<<"a">>, <<F64(1)>>, <<7>>),
      Rec(<<"b", "c">>, <<F64(2), F64(3)>>, <<8, 9>>),
      Rec(<<"d">>, <<>>, <<5>>),
      Rec(<<"e">>, <<F64(4)>>, <<>>),
      Rec(<<" ", "f", "\t">>, <<F64(6)>>, <<6>>),
      Rec(<<"g", "\n", "h">>, <<F64(7)>>, <<4>>) }

RECURSIVE SeqsUpTo(_, _)
SeqsUpTo(S, n) ==
    IF n = 0 THEN {<<>>}
    ELSE LET shorter == SeqsUpTo(S, n - 1)
         IN  shorter \cup {Append(s, x) : s \in {t \in shorter : Len(t) = n - 1}, x \in S}

(***************************************************************************)
(* The codec of the writer.                                                *)
(***************************************************************************)
\* the length written most significant byte first
ToBytesBigEndian(n) ==
    [i \in 1 .. BYTE_PADDING |-> (n \div (256 ^ (BYTE_PADDING - i))) % 256]

\* int.to_bytes(BYTE_PADDING, 'little')
ToBytes(n) == [i \in 1 .. BYTE_PADDING |-> (n \div (256 ^ (i - 1))) % 256]

\* ndarray.tobytes(): the elements' bytes one after the other
RECURSIVE TobytesOf(_)
TobytesOf(vec) ==
    IF vec = <<>> THEN <<>> ELSE Head(vec) \o TobytesOf(Tail(vec))

\* len(b).to_bytes(BYTE_PADDING, sys.byteorder) + b
Frame(b) == ToBytes(Len(b)) \o b

\* id_ + '\n'
IdLine(id) == Append(id, "\n")

(***************************************************************************)
(* The file system under path.                                             *)
(***************************************************************************)
NoDir == [dir |-> FALSE, has |-> {}, ids |-> <<>>, vectors |-> <<>>, metas |-> <<>>]
NewDir == [NoDir EXCEPT !.dir = TRUE]

EmptyFs == [k \in ShardIds |-> NoDir]

\* what a dump left behind at path by somebody else may look like
StaleFs ==
    [EmptyFs EXCEPT ![0] = [dir |-> TRUE, has |-> {"ids", "metas"},
                            ids |-> IdLine(<<"z">>), vectors |-> <<>>,
                            metas |-> Frame(<<1>>)]]

\* A generator: "created" until its first pull, "suspended" at a yield with
\* its file open at pos, "closed" once it returned or raised.  out is what
\* it yielded so far, err the exception that ended it ("none" if none).
NewGen == [st |-> "created", pos |-> 1, out |-> <<>>, err |-> "none"]

\* The pair of generators an import call returned, and what it was asked.
NoCall == [made |-> FALSE, kind |-> "vectors", shard |-> 0, ids |-> NewGen, pay |-> NewGen]

\* The locals of export_dump_streaming before it assigns them.
InitLoc ==
    [size_per_shard |-> 0, extra |-> 0, shard_id |-> 0, size_this_shard |-> 0,
     shard_written |-> 0, rec |-> Rec(<<>>, <<>>, <<>>)]

\* export_dump_streaming is called with shards >= 1 and size >= 0, on a path
\* that does not exist, or is an empty directory, or holds an older dump;
\* data may hold fewer or more than size records.
Init ==
    /\ rootExists \in BOOLEAN
    /\ fs \in (IF rootExists THEN {EmptyFs, StaleFs} ELSE {EmptyFs})
    /\ shards \in 1 .. MaxShards
    /\ size \in 0 .. MaxSize
    /\ data \in SeqsUpTo(Records, MaxSize)
    /\ cursor = 0
    /\ pc = "start"
    /\ loc = InitLoc
    /\ wh = {}
    /\ exc = "none"
    /\ gens = [c \in Calls |-> NoCall]
    /\ rh = {}

(***************************************************************************)
(* The generators of the readers.  A generator step reads its file from    *)
(* position pos (the index of the next unread byte or character) and       *)
(* either yields a value and a new position, or ends ("stop": the with     *)
(* block is left and StopIteration is raised), or raises ("ValueError").   *)
(***************************************************************************)
Min(a, b) == IF a <= b THEN a ELSE b

\* fh.read(n) at position pos: the next n bytes, fewer at the end of the file
Read(f, pos, n) == SubSeq(f, pos, Min(pos + n - 1, Len(f)))

\* int.from_bytes(b, byteorder='little'), of any number of bytes
RECURSIVE FromBytes(_)
FromBytes(b) ==
    IF b = <<>> THEN 0 ELSE Head(b) + 256 * FromBytes(Tail(b))

\* np.frombuffer(buf, dtype=np.float64), given that len(buf) % 8 = 0
RECURSIVE Frombuffer(_)
Frombuffer(buf) ==
    IF buf = <<>> THEN <<>>
    ELSE <<SubSeq(buf, 1, 8)>> \o Frombuffer(SubSeq(buf, 9, Len(buf)))

\* str.strip()
Strip(s) ==
    LET keep == {i \in 1 .. Len(s) : s[i] \notin Whitespace}
    IN  IF keep = {} THEN <<>>
        ELSE SubSeq(s, CHOOSE i \in keep : \A j \in keep : i <= j,
                       CHOOSE i \in keep : \A j \in keep : j <= i)

\* the last index of the line of a text file that starts at pos
\* (universal newlines: a line ends with \n, \r or \r\n, or with the file)
LineEnd(text, pos) ==
    LET ends == {i \in pos .. Len(text) : text[i] \in {"\n", "\r"}}
    IN  IF ends = {} THEN Len(text)
        ELSE LET e == CHOOSE i \in ends : \A j \in ends : i <= j
             IN  IF text[e] = "\r" /\ e < Len(text) /\ text[e + 1] = "\n"
                 THEN e + 1 ELSE e

Yield(v, p) == [kind |-> "yield", val |-> <<v>>, pos |-> p]
Stop(p) == [kind |-> "stop", val |-> <<>>, pos |-> p]
Raise(p) == [kind |-> "ValueError", val |-> <<>>, pos |-> p]

\* lines 113-114: one iteration of  for l in ids_fh: yield l.strip()
IdsGen(text, pos) ==
    IF pos > Len(text) THEN Stop(pos)
    ELSE LET e == LineEnd(text, pos)
         IN  Yield(Strip(SubSeq(text, pos, e)), e + 1)

\* the loop of _vecs_gen without its test of next_size
VecsGenNoStop(f, pos) ==
    LET prefix == Read(f, pos, BYTE_PADDING)
        next_size == FromBytes(prefix)
        buf == Read(f, pos + Len(prefix), next_size)
        after == pos + Len(prefix) + Len(buf)
    IN  IF Len(buf) % 8 # 0 THEN Raise(after)
        ELSE Yield(Frombuffer(buf), after)

\* lines 119-129: one iteration of the loop of _vecs_gen
VecsGen(f, pos) ==
    LET prefix == Read(f, pos, BYTE_PADDING)
        next_size == FromBytes(prefix)
        buf == Read(f, pos + Len(prefix), next_size)
        after == pos + Len(prefix) + Len(buf)
    IN  IF next_size # 0
        THEN IF Len(buf) % 8 # 0 THEN Raise(after)
             ELSE Yield(Frombuffer(buf), after)
        ELSE Stop(pos + Len(prefix))

\* a zero-length frame yielded as an empty payload, the end of the file
\* alone ending the stream
MetasGenYieldsEmpty(f, pos) ==
    LET prefix == Read(f, pos, BYTE_PADDING)
        next_size == FromBytes(prefix)
        buf == Read(f, pos + Len(prefix), next_size)
    IN  IF prefix # <<>>
        THEN Yield(buf, pos + Len(prefix) + Len(buf))
        ELSE Stop(pos)

\* lines 134-141: one iteration of the loop of _metas_gen
MetasGen(f, pos) ==
    LET prefix == Read(f, pos, BYTE_PADDING)
        next_size == FromBytes(prefix)
        buf == Read(f, pos + Len(prefix), next_size)
    IN  IF next_size # 0
        THEN Yield(buf, pos + Len(prefix) + Len(buf))
        ELSE Stop(pos + Len(prefix))

GenStep(kind, f, pos) ==
    CASE kind = "ids" -> IdsGen(f, pos)
      [] kind = "vectors" -> VecsGen(f, pos)
      [] kind = "metas" -> MetasGen(f, pos)

\* the file a generator of this kind opens in shard directory d
FileOf(d, kind) ==
    CASE kind = "ids" -> d.ids
      [] kind = "vectors" -> d.vectors
      [] kind = "metas" -> d.metas

\* open(os.path.join(path, kind), ...) succeeds
CanOpen(d, kind) == d.dir /\ kind \in d.has

\* A generator pulled from position pos until it ends: what list(gen)
\* collects, and how the generator ended.
RECURSIVE Drain(_, _, _, _)
Drain(kind, f, pos, out) ==
    LET r == GenStep(kind, f, pos)
    IN  IF r.kind = "yield" THEN Drain(kind, f, r.pos, out \o r.val)
        ELSE [out |-> out, end |-> r.kind]

\* list(g) for a fresh generator g of this kind on shard directory d
ReadAll(d, kind) ==
    IF CanOpen(d, kind) THEN Drain(kind, FileOf(d, kind), 1, <<>>)
    ELSE [out |-> <<>>, end |-> "FileNotFoundError"]


(***************************************************************************)
(* export_dump_streaming, one action per statement group.                  *)
(***************************************************************************)
\* lines 57-58: the path exists
ExportExists ==
    /\ pc = "start"
    /\ rootExists
    /\ pc' = "raised"
    /\ exc' = "Exception"
    /\ UNCHANGED <<rootExists, fs, shards, size, data, cursor, loc, wh, gens, rh>>

\* the plan made without the check of lines 57-58
ExportPlanUnguarded ==
    /\ pc = "start"
    /\ loc' = [loc EXCEPT !.size_per_shard = size \div shards,
                          !.extra = size % shards,
                          !.shard_id = 0]
    /\ pc' = "for"
    /\ UNCHANGED <<rootExists, fs, shards, size, data, cursor, wh, exc, gens, rh>>

\* lines 59-61
ExportPlan ==
    /\ pc = "start"
    /\ ~rootExists
    /\ loc' = [loc EXCEPT !.size_per_shard = size \div shards,
                          !.extra = size % shards,
                          !.shard_id = 0]
    /\ pc' = "for"
    /\ UNCHANGED <<rootExists, fs, shards, size, data, cursor, wh, exc, gens, rh>>

\* the remainder given to the first shard
SizeThisShardExtraFirst(shard_id, size_per_shard, extra, nshards) ==
    IF shard_id = 0 THEN size_per_shard + extra ELSE size_per_shard

\* lines 63-66
SizeThisShard(shard_id, size_per_shard, extra, nshards) ==
    IF shard_id = nshards - 1 THEN size_per_shard + extra ELSE size_per_shard

\* a shard that is to receive no record passed over
ExportMakeDirsSkipEmpty ==
    /\ pc = "for"
    /\ loc.shard_id < shards
    /\ ~fs[loc.shard_id].dir
    /\ LET n == SizeThisShard(loc.shard_id, loc.size_per_shard, loc.extra, shards)
       IN  IF n = 0
           THEN /\ loc' = [loc EXCEPT !.shard_id = @ + 1]
                /\ UNCHANGED <<rootExists, fs, pc>>
           ELSE /\ loc' = [loc EXCEPT !.size_this_shard = n, !.shard_written = 0]
                /\ rootExists' = TRUE
                /\ fs' = [fs EXCEPT ![loc.shard_id] = NewDir]
                /\ pc' = "open"
    /\ UNCHANGED <<shards, size, data, cursor, wh, exc, gens, rh>>

\* lines 62-69: the next shard_id of shard_range, its size, os.makedirs
ExportMakeDirs ==
    /\ pc = "for"
    /\ loc.shard_id < shards
    /\ ~fs[loc.shard_id].dir
    /\ loc' = [loc EXCEPT !.size_this_shard =
                              SizeThisShard(loc.shard_id, loc.size_per_shard,
                                            loc.extra, shards),
                          !.shard_written = 0]
    /\ rootExists' = TRUE
    /\ fs' = [fs EXCEPT ![loc.shard_id] = NewDir]
    /\ pc' = "open"
    /\ UNCHANGED <<shards, size, data, cursor, wh, exc, gens, rh>>

\* the ids file not opened
GetFileHandlersNoIds(d) ==
    [d EXCEPT !.has = {"vectors", "metas"}, !.vectors = <<>>, !.metas = <<>>]

\* lines 143-148: open(..., 'wb') / open(..., 'w') create the files empty
GetFileHandlers(d) ==
    [d EXCEPT !.has = FileNames, !.ids = <<>>, !.vectors = <<>>, !.metas = <<>>]

\* line 70
ExportOpen ==
    /\ pc = "open"
    /\ fs' = [fs EXCEPT ![loc.shard_id] = GetFileHandlers(@)]
    /\ wh' = wh \cup {<<loc.shard_id, f>> : f \in FileNames}
    /\ pc' = "while"
    /\ UNCHANGED <<rootExists, shards, size, data, cursor, loc, exc, gens, rh>>

\* a pull that starts the source over each time
ExportPullRestart ==
    /\ pc = "while"
    /\ loc.shard_written < loc.size_this_shard
    /\ cursor < Len(data)
    /\ loc' = [loc EXCEPT !.rec = data[1]]
    /\ cursor' = cursor + 1
    /\ pc' = "vec"
    /\ UNCHANGED <<rootExists, fs, shards, size, data, wh, exc, gens, rh>>

\* line 71, condition true, and line 72 with a record left in data
ExportPull ==
    /\ pc = "while"
    /\ loc.shard_written < loc.size_this_shard
    /\ cursor < Len(data)
    /\ loc' = [loc EXCEPT !.rec = data[cursor + 1]]
    /\ cursor' = cursor + 1
    /\ pc' = "vec"
    /\ UNCHANGED <<rootExists, fs, shards, size, data, wh, exc, gens, rh>>

\* the exhausted source taken for the end of the shard
ExportUnderrunSwallowed ==
    /\ pc = "while"
    /\ loc.shard_written < loc.size_this_shard
    /\ cursor >= Len(data)
    /\ loc' = [loc EXCEPT !.size_this_shard = loc.shard_written]
    /\ UNCHANGED <<rootExists, fs, shards, size, data, cursor, pc, wh, exc, gens, rh>>

\* line 72 with data exhausted: StopIteration leaves the function
ExportUnderrun ==
    /\ pc = "while"
    /\ loc.shard_written < loc.size_this_shard
    /\ cursor >= Len(data)
    /\ pc' = "raised"
    /\ exc' = "StopIteration"
    /\ UNCHANGED <<rootExists, fs, shards, size, data, cursor, loc, wh, gens, rh>>

\* lines 73-76
ExportWriteVec ==
    /\ pc = "vec"
    /\ fs' = [fs EXCEPT ![loc.shard_id].vectors = @ \o Frame(TobytesOf(loc.rec.vec))]
    /\ pc' = "meta"
    /\ UNCHANGED <<rootExists, shards, size, data, cursor, loc, wh, exc, gens, rh>>

\* empty metadata given no frame
ExportWriteMetaSkipEmpty ==
    /\ pc = "meta"
    /\ fs' = [fs EXCEPT ![loc.shard_id].metas =
                  IF loc.rec.meta = <<>> THEN @ ELSE @ \o Frame(loc.rec.meta)]
    /\ pc' = "id"
    /\ UNCHANGED <<rootExists, shards, size, data, cursor, loc, wh, exc, gens, rh>>

\* line 77
ExportWriteMeta ==
    /\ pc = "meta"
    /\ fs' = [fs EXCEPT ![loc.shard_id].metas = @ \o Frame(loc.rec.meta)]
    /\ pc' = "id"
    /\ UNCHANGED <<rootExists, shards, size, data, cursor, loc, wh, exc, gens, rh>>

\* lines 78-79
ExportWriteId ==
    /\ pc = "id"
    /\ fs' = [fs EXCEPT ![loc.shard_id].ids = @ \o IdLine(loc.rec.id)]
    /\ loc' = [loc EXCEPT !.shard_written = @ + 1]
    /\ pc' = "while"
    /\ UNCHANGED <<rootExists, shards, size, data, cursor, wh, exc, gens, rh>>

\* the shard left with its three files still open
ExportCloseLeaks ==
    /\ pc = "while"
    /\ loc.shard_written >= loc.size_this_shard
    /\ loc' = [loc EXCEPT !.shard_id = @ + 1]
    /\ pc' = "for"
    /\ UNCHANGED <<rootExists, fs, shards, size, data, cursor, wh, exc, gens, rh>>

\* line 71, condition false, and lines 80-82; then the next iteration of line 62
ExportClose ==
    /\ pc = "while"
    /\ loc.shard_written >= loc.size_this_shard
    /\ wh' = wh \ {<<loc.shard_id, f>> : f \in FileNames}
    /\ loc' = [loc EXCEPT !.shard_id = @ + 1]
    /\ pc' = "for"
    /\ UNCHANGED <<rootExists, fs, shards, size, data, cursor, exc, gens, rh>>

\* the source read to its end before the function returns
ExportReturnDrainsSource ==
    /\ pc = "for"
    /\ loc.shard_id >= shards
    /\ cursor' = Len(data)
    /\ pc' = "done"
    /\ UNCHANGED <<rootExists, fs, shards, size, data, loc, wh, exc, gens, rh>>

\* line 62 with shard_range used up: the function returns
ExportReturn ==
    /\ pc = "for"
    /\ loc.shard_id >= shards
    /\ pc' = "done"
    /\ UNCHANGED <<rootExists, fs, shards, size, data, cursor, loc, wh, exc, gens, rh>>

Next ==
    \/ ExportExists
    \/ ExportPlan
    \/ ExportMakeDirs
    \/ ExportOpen
    \/ ExportPull
    \/ ExportUnderrun
    \/ ExportWriteVec
    \/ ExportWriteMeta
    \/ ExportWriteId
    \/ ExportClose
    \/ ExportReturn

Spec == Init /\ [][Next]_vars

(***************************************************************************)
(* import_vectors, import_metas and the pulls on their generators.         *)
(***************************************************************************)
\* a missing file read as an empty one
NextOfMissingAsEmpty(g, kind, d) ==
    IF g.st = "created" /\ ~CanOpen(d, kind)
    THEN [g EXCEPT !.st = "closed"]
    ELSE LET r == GenStep(kind, FileOf(d, kind), g.pos)
         IN  CASE r.kind = "yield" ->
                    [g EXCEPT !.st = "suspended", !.pos = r.pos, !.out = @ \o r.val]
               [] r.kind = "stop" ->
                    [g EXCEPT !.st = "closed", !.pos = r.pos]
               [] OTHER ->
                    [g EXCEPT !.st = "closed", !.pos = r.pos, !.err = r.kind]

\* next(g) on a generator of this kind over shard directory d that is not
\* closed: the first pull opens the file (lines 112, 118, 133)
NextOf(g, kind, d) ==
    IF g.st = "created" /\ ~CanOpen(d, kind)
    THEN [g EXCEPT !.st = "closed", !.err = "FileNotFoundError"]
    ELSE LET r == GenStep(kind, FileOf(d, kind), g.pos)
         IN  CASE r.kind = "yield" ->
                    [g EXCEPT !.st = "suspended", !.pos = r.pos, !.out = @ \o r.val]
               [] r.kind = "stop" ->
                    [g EXCEPT !.st = "closed", !.pos = r.pos]
               [] OTHER ->
                    [g EXCEPT !.st = "closed", !.pos = r.pos, !.err = r.kind]

ExportVars == <<rootExists, fs, shards, size, data, cursor, pc, loc, wh, exc>>

\* a file object that is opened without a with block and never closed
HandlesAfterNoWith(handles, c, w, g) ==
    IF g.st = "suspended" THEN handles \cup {<<c, w>>} ELSE handles

\* lines 112, 118, 133: with open(...) holds the file open while the
\* generator is suspended inside the block, and closes it when the block is
\* left by the end of the loop, by break or by an exception
HandlesAfter(handles, c, w, g) ==
    IF g.st = "suspended" THEN handles \cup {<<c, w>>} ELSE handles \ {<<c, w>>}

\* the generators of an earlier call under this name are dropped
Dropped(handles, c) == handles \ {<<c, "ids">>, <<c, "pay">>}

\* lines 92-95: two generator objects are made, no file is touched
ImportVectors(c, k) ==
    /\ pc = "idle"
    /\ gens' = [gens EXCEPT ![c] = [made |-> TRUE, kind |-> "vectors", shard |-> k,
                                    ids |-> NewGen, pay |-> NewGen]]
    /\ rh' = Dropped(rh, c)
    /\ UNCHANGED ExportVars

\* lines 105-108
ImportMetas(c, k) ==
    /\ pc = "idle"
    /\ gens' = [gens EXCEPT ![c] = [made |-> TRUE, kind |-> "metas", shard |-> k,
                                    ids |-> NewGen, pay |-> NewGen]]
    /\ rh' = Dropped(rh, c)
    /\ UNCHANGED ExportVars

\* a pull on the ids generator of call c that advances another call's too
PullIdsSharedHandle(c) ==
    /\ gens[c].made
    /\ gens[c].ids.st # "closed"
    /\ gens' = [d \in Calls |->
                  IF gens[d].made /\ gens[d].shard = gens[c].shard
                        /\ gens[d].ids.st # "closed"
                  THEN [gens[d] EXCEPT !.ids = NextOf(gens[c].ids, "ids", fs[gens[c].shard])]
                  ELSE gens[d]]
    /\ rh' = HandlesAfter(rh, c, "ids", gens'[c].ids)
    /\ UNCHANGED ExportVars

\* next(ids_gen) for the ids generator of call c (a pull on a closed
\* generator raises StopIteration and changes nothing)
PullIds(c) ==
    /\ gens[c].made
    /\ gens[c].ids.st # "closed"
    /\ gens' = [gens EXCEPT ![c].ids = NextOf(@, "ids", fs[gens[c].shard])]
    /\ rh' = HandlesAfter(rh, c, "ids", gens'[c].ids)
    /\ UNCHANGED ExportVars

\* a pull whose first open is for writing, which empties the file
PullPayloadOpenForWrite(c) ==
    /\ gens[c].made
    /\ gens[c].pay.st # "closed"
    /\ LET k == gens[c].shard
           d == IF gens[c].pay.st = "created" /\ CanOpen(fs[k], gens[c].kind)
                THEN IF gens[c].kind = "vectors" THEN [fs[k] EXCEPT !.vectors = <<>>]
                     ELSE [fs[k] EXCEPT !.metas = <<>>]
                ELSE fs[k]
       IN  /\ fs' = [fs EXCEPT ![k] = d]
           /\ gens' = [gens EXCEPT ![c].pay = NextOf(@, gens[c].kind, d)]
    /\ rh' = HandlesAfter(rh, c, "pay", gens'[c].pay)
    /\ UNCHANGED <<rootExists, shards, size, data, cursor, pc, loc, wh, exc>>

\* next(vecs_gen) or next(metas_gen) for the second generator of call c
PullPayload(c) ==
    /\ gens[c].made
    /\ gens[c].pay.st # "closed"
    /\ gens' = [gens EXCEPT ![c].pay = NextOf(@, gens[c].kind, fs[gens[c].shard])]
    /\ rh' = HandlesAfter(rh, c, "pay", gens'[c].pay)
    /\ UNCHANGED ExportVars

\* g.close() on a generator that has not ended: GeneratorExit is raised at
\* the yield it is suspended at, which leaves the with block; a generator
\* that was never pulled just ends
CloseOf(g) == [g EXCEPT !.st = "closed", !.err = "GeneratorExit"]

\* ids_gen.close()
CloseIds(c) ==
    /\ gens[c].made
    /\ gens[c].ids.st # "closed"
    /\ gens' = [gens EXCEPT ![c].ids = CloseOf(@)]
    /\ rh' = HandlesAfter(rh, c, "ids", gens'[c].ids)
    /\ UNCHANGED ExportVars

\* vecs_gen.close() or metas_gen.close()
ClosePayload(c) ==
    /\ gens[c].made
    /\ gens[c].pay.st # "closed"
    /\ gens' = [gens EXCEPT ![c].pay = CloseOf(@)]
    /\ rh' = HandlesAfter(rh, c, "pay", gens'[c].pay)
    /\ UNCHANGED ExportVars

\* The shards an import is asked for: one that may be there, one that is not.
Targets == {0, 1}

NextImport ==
    \/ \E c \in Calls, k \in Targets : ImportVectors(c, k)
    \/ \E c \in Calls, k \in Targets : ImportMetas(c, k)
    \/ \E c \in Calls : PullIds(c)
    \/ \E c \in Calls : PullPayload(c)

NextOneImport ==
    \/ \E k \in Targets : ImportVectors(1, k)
    \/ \E k \in Targets : ImportMetas(1, k)
    \/ PullIds(1)
    \/ PullPayload(1)
    \/ CloseIds(1)
    \/ ClosePayload(1)

(***************************************************************************)
(* The dumps a reader is started on: shard 0 as export writes it for a     *)
(* list of records, whole, or with the directory or one file missing, or   *)
(* with one file cut short; no other shard.                                *)
(***************************************************************************)
OnDisk == {Rec(<<"a">>, <<F64(1)>>, <<7>>), Rec(<<"b", "c">>, <<F64(2), F64(3)>>, <<8, 9>>)}

RECURSIVE Written(_)
Written(recs) ==
    IF recs = <<>> THEN GetFileHandlers(NewDir)
    ELSE LET d == Written(SubSeq(recs, 1, Len(recs) - 1))
             r == recs[Len(recs)]
         IN  [d EXCEPT !.vectors = @ \o Frame(TobytesOf(r.vec)),
                       !.metas = @ \o Frame(r.meta),
                       !.ids = @ \o IdLine(r.id)]

Incomplete(d) == {NoDir} \cup {[d EXCEPT !.has = FileNames \ {f}] : f \in FileNames}

CutShort(d) ==
    {[d EXCEPT !.vectors = SubSeq(@, 1, n)] : n \in 0 .. (Len(d.vectors) - 1)}
        \cup {[d EXCEPT !.metas = SubSeq(@, 1, n)] : n \in 0 .. (Len(d.metas) - 1)}
        \cup {[d EXCEPT !.ids = SubSeq(@, 1, n)] : n \in 0 .. (Len(d.ids) - 1)}

WholeDirs == {Written(recs) : recs \in SeqsUpTo(OnDisk, MaxOnDisk)}

InitReaders(dirs) ==
    /\ rootExists = TRUE
    /\ fs \in {[EmptyFs EXCEPT ![0] = d] : d \in dirs}
    /\ shards = 1
    /\ size = 0
    /\ data = <<>>
    /\ cursor = 0
    /\ pc = "idle"
    /\ loc = InitLoc
    /\ wh = {}
    /\ exc = "none"
    /\ gens = [c \in Calls |-> NoCall]
    /\ rh = {}

InitImport == InitReaders(WholeDirs \cup UNION {Incomplete(d) : d \in WholeDirs})

InitDamaged ==
    InitReaders(WholeDirs \cup UNION {Incomplete(d) \cup CutShort(d) : d \in WholeDirs})

\* two import calls side by side on a dump that is whole or incomplete
SpecImport == InitImport /\ [][NextImport]_vars

\* one import call, whose generators may also be closed by the caller, on a
\* dump that may also hold a file cut short
SpecDamaged == InitDamaged /\ [][NextOneImport]_vars

(***************************************************************************)
(* What the claims speak of.                                               *)
(***************************************************************************)
Used == 0 .. (shards - 1)

\* the records of data from index a + 1 on, n of them
Slice(a, n) == SubSeq(data, a + 1, a + n)

\* the files that hold exactly the given records, in order
RECURSIVE IdsFileOf(_)
IdsFileOf(recs) ==
    IF recs = <<>> THEN <<>>
    ELSE Head(recs).id \o <<"\n">> \o IdsFileOf(Tail(recs))

LenPrefix(n) == <<n % 256, (n \div 256) % 256, (n \div 65536) % 256, n \div 16777216>>

RECURSIVE Flat(_)
Flat(seqs) == IF seqs = <<>> THEN <<>> ELSE Head(seqs) \o Flat(Tail(seqs))

RECURSIVE VectorsFileOf(_)
VectorsFileOf(recs) ==
    IF recs = <<>> THEN <<>>
    ELSE LenPrefix(8 * Len(Head(recs).vec)) \o Flat(Head(recs).vec)
             \o VectorsFileOf(Tail(recs))

RECURSIVE MetasFileOf(_)
MetasFileOf(recs) ==
    IF recs = <<>> THEN <<>>
    ELSE LenPrefix(Len(Head(recs).meta)) \o Head(recs).meta \o MetasFileOf(Tail(recs))

\* shard directory d holds exactly the given records
Holds(d, recs) ==
    /\ d.dir
    /\ d.has = FileNames
    /\ d.ids = IdsFileOf(recs)
    /\ d.vectors = VectorsFileOf(recs)
    /\ d.metas = MetasFileOf(recs)

\* the length that the four bytes of f from pos on state
Stated(f, pos) == f[pos] + 256 * f[pos + 1] + 65536 * f[pos + 2] + 16777216 * f[pos + 3]

\* the frame of f that starts at pos is there with all the bytes it states
WholeAt(f, pos) == pos + 3 <= Len(f) /\ pos + 3 + Stated(f, pos) <= Len(f)

\* the position after the whole frames of f that follow one another from pos
RECURSIVE AfterWhole(_, _)
AfterWhole(f, pos) ==
    IF WholeAt(f, pos) THEN AfterWhole(f, pos + 4 + Stated(f, pos)) ELSE pos

\* the number of whole frames of f from pos on
RECURSIVE WholeFrom(_, _)
WholeFrom(f, pos) ==
    IF WholeAt(f, pos) THEN 1 + WholeFrom(f, pos + 4 + Stated(f, pos)) ELSE 0

NumFrames(f) == WholeFrom(f, 1)

\* f ends inside the payload of a frame: its length prefix is there, and
\* fewer bytes than it states (possibly none) follow
CutInPayload(f) ==
    LET p == AfterWhole(f, 1)
    IN  p + 3 <= Len(f) /\ p + 3 + Stated(f, p) > Len(f)

\* the number of lines of a text file whose last line ends with a newline
NumLines(text) == Cardinality({i \in 1 .. Len(text) : text[i] = "\n"})

\* what importing shards 0 .. k - 1 and chaining the sequences collects
RECURSIVE Imported(_, _)
Imported(kind, k) ==
    IF k = 0 THEN <<>>
    ELSE Imported(kind, k - 1) \o ReadAll(fs[k - 1], kind).out

ImportsEnd == \A k \in Used : \A kind \in FileNames : ReadAll(fs[k], kind).end = "stop"

RoundTrip ==
    /\ ImportsEnd
    /\ Imported("ids", shards) = [i \in 1 .. size |-> data[i].id]
    /\ Imported("vectors", shards) = [i \in 1 .. size |-> data[i].vec]
    /\ Imported("metas", shards) = [i \in 1 .. size |-> data[i].meta]

\* a record the format can hold: a vector and metadata that are not empty,
\* an id without a line break and without whitespace at either end
Representable(r) ==
    /\ r.vec # <<>>
    /\ r.meta # <<>>
    /\ \A i \in 1 .. Len(r.id) : r.id[i] \notin {"\n", "\r"}
    /\ r.id # <<>> => (r.id[1] \notin Whitespace /\ r.id[Len(r.id)] \notin Whitespace)

\* C1 as stated: after a successful export of a source of exactly size
\* records, importing every shard and chaining the results in shard order
\* gives back the ids, the vectors and the metadata of the source.
C1_RoundTripAnyRecord ==
    (pc = "done" /\ Len(data) = size) => RoundTrip

\* The round trip does hold when every record of the source has a
\* non-empty vector, non-empty metadata and an id that holds no line break
\* and neither starts nor ends with whitespace.
RoundTripOfRepresentable ==
    (pc = "done" /\ Len(data) = size /\ \A i \in 1 .. size : Representable(data[i]))
        => RoundTrip

RoundTripOfRepresentableSeen ==
    /\ pc = "done"
    /\ Len(data) = size
    /\ size >= 3
    /\ shards = 2
    /\ \A i \in 1 .. size : Representable(data[i])
    /\ data[1] # data[2]
    /\ Len(Imported("vectors", shards)) = 3

\* the number of whole vector frames in shards 0 .. k - 1
RECURSIVE SumFrames(_)
SumFrames(k) == IF k = 0 THEN 0 ELSE SumFrames(k - 1) + NumFrames(fs[k - 1].vectors)

\* C2: after a successful export every shard but the last holds
\* size div shards records, the last holds size div shards + size mod shards,
\* and the shards together hold size records.
C2_SizeDistribution ==
    pc = "done" =>
        /\ \A k \in Used :
              LET n == IF k < shards - 1 THEN size \div shards
                       ELSE (size \div shards) + (size % shards)
              IN  /\ NumFrames(fs[k].vectors) = n
                  /\ NumFrames(fs[k].metas) = n
                  /\ NumLines(fs[k].ids) >= n
        /\ SumFrames(shards) = size

C2_Witness ==
    /\ pc = "done"
    /\ shards = 2
    /\ size = 3
    /\ NumFrames(fs[0].vectors) = 1
    /\ NumFrames(fs[1].vectors) = 2

\* C3: after a successful export shard k holds, in pull order, the records
\* pulled at positions k * (size div shards) + 1, + 2, ... of the source.
C3_ContiguousPartition ==
    pc = "done" =>
        \A k \in Used :
            Holds(fs[k], Slice(k * (size \div shards),
                               IF k < shards - 1 THEN size \div shards
                               ELSE (size \div shards) + (size % shards)))

C3_Witness ==
    /\ pc = "done"
    /\ shards = 2
    /\ size = 3
    /\ data[1] # data[2] /\ data[2] # data[3] /\ data[1] # data[3]
    /\ fs[0].ids = IdsFileOf(<<data[1]>>)
    /\ fs[1].ids = IdsFileOf(<<data[2], data[3]>>)

\* C4: an export to a path that exists raises, and neither then nor later
\* creates or changes a directory or file, opens a file or pulls a record.
C4_ConflictGuard ==
    [][ /\ (pc = "start" /\ rootExists) =>
              (pc' = "raised" /\ exc' = "Exception" /\ fs' = fs
                  /\ rootExists' = rootExists /\ cursor' = cursor /\ wh' = wh)
        /\ exc = "Exception" => (fs' = fs /\ cursor' = cursor /\ wh' = wh) ]_vars

C4_Witness ==
    /\ pc = "raised"
    /\ exc = "Exception"
    /\ fs = EmptyFs
    /\ cursor = 0
    /\ size > 0
    /\ Len(data) > 0

EmptyShard(d) ==
    /\ Holds(d, <<>>)
    /\ \A kind \in FileNames : ReadAll(d, kind) = [out |-> <<>>, end |-> "stop"]

\* C5 as stated: with more shards than records, every shard with
\* index >= size exists with three empty files and imports as empty.
C5_EmptyFromSizeOn ==
    (pc = "done" /\ shards > size) =>
        \A k \in Used : k >= size => EmptyShard(fs[k])

\* C5 amended: with more shards than records, every shard but the last
\* exists with three empty files and imports as empty sequences; the last
\* shard holds all size records.
C5_EmptyButLast ==
    (pc = "done" /\ shards > size) =>
        /\ \A k \in Used : k < shards - 1 => EmptyShard(fs[k])
        /\ Holds(fs[shards - 1], Slice(0, size))

C5_Witness ==
    /\ pc = "done"
    /\ shards = 3
    /\ size = 2
    /\ EmptyShard(fs[0])
    /\ EmptyShard(fs[1])
    /\ NumFrames(fs[2].vectors) = 2

\* C9: a source of k < size records makes the export raise at pull k + 1
\* and never return; nothing is cleaned up: the shards before the current
\* one hold their planned records, the current one holds the records
\* pulled for it, its files are still open, and no later shard exists.
C9_SourceUnderrun ==
    /\ Len(data) < size => pc # "done"
    /\ exc = "StopIteration" =>
          LET per == size \div shards
              cur == loc.shard_id
          IN  /\ pc = "raised"
              /\ cursor = Len(data)
              /\ Len(data) < size
              /\ cur \in Used
              /\ \A k \in Used :
                    /\ k < cur => Holds(fs[k], Slice(k * per, per))
                    /\ k = cur => Holds(fs[k], Slice(k * per, Len(data) - k * per))
                    /\ k > cur => fs[k] = NoDir
              /\ wh = {<<cur, f>> : f \in FileNames}

C9_Witness ==
    /\ exc = "StopIteration"
    /\ shards = 3
    /\ size = 3
    /\ Len(data) = 1
    /\ loc.shard_id = 1
    /\ fs[0].ids # <<>>
    /\ fs[1].has = FileNames
    /\ ~fs[2].dir

\* the calls made, and the two generators of each with the file they read
Made == {c \in Calls : gens[c].made}
GenOf(g, c, w) == IF w = "ids" THEN g[c].ids ELSE g[c].pay
KindOf(c, w) == IF w = "ids" THEN "ids" ELSE gens[c].kind
Which == {"ids", "pay"}

\* the generator ended by itself, not by close()
Ended(g) == g.st = "closed" /\ g.err # "GeneratorExit"

\* the generator has been pulled at least once
Pulled(g) == g.st = "suspended" \/ Ended(g) \/ g.out # <<>>

\* the generator as it was before close()
Unclosed(g) ==
    IF g.err = "GeneratorExit"
    THEN [g EXCEPT !.st = IF g.out = <<>> THEN "created" ELSE "suspended", !.err = "none"]
    ELSE g

\* C6 as stated: the vector sequence of a vectors file that ends inside
\* the payload of a frame yields the whole frames before it and no more,
\* and ends with an error.
C6_CutVectorsDetected ==
    \A c \in Made :
        LET d == fs[gens[c].shard]
            g == gens[c].pay
        IN  (gens[c].kind = "vectors" /\ d.dir /\ "vectors" \in d.has
                /\ CutInPayload(d.vectors)) =>
                /\ Len(g.out) <= NumFrames(d.vectors)
                /\ Ended(g) => g.err # "none"

\* C7 as stated: the metadata sequence of a metas file that ends inside
\* the payload of a frame yields the whole frames before it and no more,
\* and ends with an error.
C7_CutMetasDetected ==
    \A c \in Made :
        LET d == fs[gens[c].shard]
            g == gens[c].pay
        IN  (gens[c].kind = "metas" /\ d.dir /\ "metas" \in d.has
                /\ CutInPayload(d.metas)) =>
                /\ Len(g.out) <= NumFrames(d.metas)
                /\ Ended(g) => g.err # "none"

\* a fresh generator of this kind on d after n pulls with nothing between
RECURSIVE Alone(_, _, _)
Alone(d, kind, n) ==
    IF n = 0 THEN NewGen
    ELSE LET g == Alone(d, kind, n - 1)
         IN  IF g.st = "closed" THEN g ELSE NextOf(g, kind, d)

\* C8: whatever the interleaving of the pulls on the generators of two
\* import calls, each generator is where it would be had it been pulled
\* alone as often, has yielded the elements it would have yielded alone, in
\* the same order, and no step advances more than one generator.
C8_IndependentCursors ==
    /\ [](\A c \in Made : \A w \in Which :
            LET g == Unclosed(GenOf(gens, c, w))
                d == fs[gens[c].shard]
                n == Len(g.out)
            IN  /\ g \in {Alone(d, KindOf(c, w), n), Alone(d, KindOf(c, w), n + 1)}
                /\ g.out = SubSeq(ReadAll(d, KindOf(c, w)).out, 1, n))
    /\ [][Cardinality({x \in Calls \X Which :
                          /\ GenOf(gens', x[1], x[2]) # GenOf(gens, x[1], x[2])
                          /\ GenOf(gens', x[1], x[2]).st # "created"}) <= 1]_vars

C8_Witness ==
    /\ Made = Calls
    /\ gens[1].shard = 0 /\ gens[2].shard = 0
    /\ gens[1].kind = "vectors" /\ gens[2].kind = "vectors"
    /\ Len(gens[1].pay.out) = 2
    /\ Len(gens[2].pay.out) = 1
    /\ gens[1].ids.st = "created"
    /\ Len(gens[2].ids.out) = 2
    /\ gens[2].ids.st = "suspended"

\* C10 as stated: an import of a shard whose directory or any one of whose
\* three files is missing raises FileNotFoundError, at the latest when each
\* of its two sequences has been pulled once.
C10_NotFoundOnAnyMissing ==
    \A c \in Made :
        LET d == fs[gens[c].shard]
        IN  ((~d.dir \/ d.has # FileNames)
                /\ Pulled(gens[c].ids) /\ Pulled(gens[c].pay)) =>
                (gens[c].ids.err = "FileNotFoundError"
                    \/ gens[c].pay.err = "FileNotFoundError")

\* C10 amended: the import call itself never raises; the first pull on a
\* sequence raises FileNotFoundError, and yields nothing, exactly when the
\* shard directory or the one file that sequence reads is missing.
C10_NotFoundOnOwnFile ==
    \A c \in Made : \A w \in Which :
        LET d == fs[gens[c].shard]
            g == GenOf(gens, c, w)
            there == d.dir /\ KindOf(c, w) \in d.has
        IN  Pulled(g) =>
                /\ g.err = "FileNotFoundError" <=> ~there
                /\ ~there => (g.st = "closed" /\ g.out = <<>>)

C10_Witness ==
    /\ 1 \in Made
    /\ gens[1].kind = "metas"
    /\ fs[gens[1].shard].dir
    /\ fs[gens[1].shard].has = {"ids", "vectors"}
    /\ gens[1].pay.err = "FileNotFoundError"
    /\ Len(gens[1].ids.out) = 2

\* C11: no import call and no pull changes a directory or file of the dump;
\* an import call leaves both generators of its pair at the first record,
\* whatever was consumed under that name before; and a generator that ran
\* to its end has yielded what any other invocation on that file yields.
C11_ReadOnlyRestartable ==
    /\ [][fs' = fs /\ rootExists' = rootExists]_vars
    /\ [][\A c \in Calls :
            (gens'[c].made
                /\ \/ ~gens[c].made
                   \/ gens'[c].kind # gens[c].kind
                   \/ gens'[c].shard # gens[c].shard
                   \/ gens'[c].ids.st = "created" /\ gens[c].ids.st # "created"
                   \/ gens'[c].pay.st = "created" /\ gens[c].pay.st # "created") =>
                (gens'[c].ids = NewGen /\ gens'[c].pay = NewGen)]_vars
    /\ [](\A c \in Made : \A w \in Which :
            LET g == GenOf(gens, c, w)
                d == fs[gens[c].shard]
            IN  /\ g.st = "created" => g = NewGen
                /\ Ended(g) => g.out = ReadAll(d, KindOf(c, w)).out
                /\ \A b \in Made :
                      (gens[b].shard = gens[c].shard /\ KindOf(b, w) = KindOf(c, w)
                          /\ Ended(g) /\ Ended(GenOf(gens, b, w))) =>
                          GenOf(gens, b, w).out = g.out)

C11_Witness ==
    /\ Made = Calls
    /\ gens[1].shard = 0 /\ gens[2].shard = 0
    /\ gens[1].kind = "metas" /\ gens[2].kind = "metas"
    /\ Ended(gens[1].pay) /\ Ended(gens[1].ids)
    /\ Len(gens[1].pay.out) = 2
    /\ gens[2].ids = NewGen
    /\ gens[2].pay.st = "suspended"
    /\ gens[2].pay.out = <<gens[1].pay.out[1]>>

\* the number of records export plans for shard k, and the records of the
\* source that fall to it
Planned(k) ==
    IF k < shards - 1 THEN size \div shards ELSE (size \div shards) + (size % shards)
ShardRecs(k) == Slice(k * (size \div shards), Planned(k))

\* the payloads of a list that come before its first empty one
RECURSIVE BeforeEmpty(_)
BeforeEmpty(payloads) ==
    IF payloads = <<>> \/ Head(payloads) = <<>> THEN <<>>
    ELSE <<Head(payloads)>> \o BeforeEmpty(Tail(payloads))

\* C12: read back from an exported shard, the vector and the metadata
\* sequence end without error at the first zero-length frame or at the end
\* of the file: they yield exactly the payloads written before the first
\* empty one and nothing after it, while the ids sequence yields a line for
\* every line of the ids file.
C12_ZeroLengthTerminates ==
    pc = "done" =>
        \A k \in Used :
            LET recs == ShardRecs(k)
            IN  /\ ReadAll(fs[k], "vectors") =
                      [out |-> BeforeEmpty([i \in 1 .. Len(recs) |-> recs[i].vec]),
                       end |-> "stop"]
                /\ ReadAll(fs[k], "metas") =
                      [out |-> BeforeEmpty([i \in 1 .. Len(recs) |-> recs[i].meta]),
                       end |-> "stop"]
                /\ ReadAll(fs[k], "ids").end = "stop"
                /\ Len(ReadAll(fs[k], "ids").out) = NumLines(fs[k].ids)
                /\ NumLines(fs[k].ids) >= Len(recs)

C12_Witness ==
    /\ pc = "done"
    /\ shards = 1
    /\ size = 3
    /\ data[1].meta # <<>> /\ data[2].meta = <<>> /\ data[3].meta # <<>>
    /\ \A i \in 1 .. 3 : data[i].vec # <<>>
    /\ Len(ReadAll(fs[0], "metas").out) = 1
    /\ Len(ReadAll(fs[0], "vectors").out) = 3
    /\ Len(ReadAll(fs[0], "ids").out) = 3

\* the export is between two records: it has passed the check of the path
\* and is not in the middle of the three writes of a record
BetweenRecords == pc \in {"for", "open", "while", "done"} \/ exc = "StopIteration"

\* the number of records written to shard k so far
WrittenTo(k) ==
    IF k < loc.shard_id THEN Planned(k)
    ELSE IF k = loc.shard_id /\ pc # "for" THEN loc.shard_written
    ELSE 0

\* C13: whenever an export is between two records, every shard directory
\* that exists holds in its ids, vectors and metas file the entries of the
\* same records, as many in each and in the same order (the n records pulled
\* for it so far), and n is at most the planned count of the shard.
C13_ShardFilesAligned ==
    BetweenRecords =>
        \A k \in ShardIds :
            fs[k].dir =>
                LET n == WrittenTo(k)
                    recs == Slice(k * (size \div shards), n)
                IN  /\ k \in Used
                    /\ n <= Planned(k)
                    /\ Len(recs) = n
                    /\ fs[k].ids = IdsFileOf(recs)
                    /\ fs[k].vectors = VectorsFileOf(recs)
                    /\ fs[k].metas = MetasFileOf(recs)
                    /\ NumFrames(fs[k].vectors) = n
                    /\ NumFrames(fs[k].metas) = n

C13_Witness ==
    /\ pc = "while"
    /\ shards = 2
    /\ size = 3
    /\ loc.shard_id = 1
    /\ loc.shard_written = 1
    /\ loc.size_this_shard = 2
    /\ data[2].meta = <<>>
    /\ data[1] # data[2]
    /\ fs[0].metas = MetasFileOf(<<data[1]>>)
    /\ fs[1].ids = IdsFileOf(<<data[2]>>)
    /\ fs[1].vectors = VectorsFileOf(<<data[2]>>)
    /\ fs[1].metas = MetasFileOf(<<data[2]>>)

\* the shards that have a file open for writing
OpenShards == {h[1] : h \in wh}

\* C14: export creates the shard directories one after the other in
\* ascending order, writes only to the shard it has open, never goes back to
\* an earlier shard, and creates the directory of a shard only when no file
\* of an earlier shard is open; so at most one shard has open write handles
\* at any time and none has after the export returned.
C14_ShardSequencing ==
    /\ [](/\ Cardinality(OpenShards) <= 1
          /\ OpenShards \subseteq {loc.shard_id}
          /\ pc = "done" => wh = {})
    /\ [][\A k \in ShardIds :
            /\ (fs'[k].dir /\ ~fs[k].dir) =>
                  /\ wh = {} /\ wh' = {}
                  /\ k = loc.shard_id
                  /\ \A j \in ShardIds : j < k => (fs[j].dir /\ fs[j].has = FileNames)
                  /\ \A j \in ShardIds : j > k => ~fs'[j].dir
            /\ fs'[k] # fs[k] =>
                  /\ k = loc.shard_id
                  /\ loc'.shard_id = k
                  /\ fs[k].dir => OpenShards' = {k}
            /\ loc'.shard_id >= loc.shard_id]_vars

C14_Witness ==
    /\ pc = "open"
    /\ loc.shard_id = 2
    /\ fs[2] = NewDir
    /\ wh = {}
    /\ fs[0].has = FileNames
    /\ fs[1].has = FileNames
    /\ fs[1].ids # <<>>

\* the files of one kind of shards 0 .. k - 1, one after the other
RECURSIVE AllShards(_, _)
AllShards(kind, k) ==
    IF k = 0 THEN <<>>
    ELSE AllShards(kind, k - 1) \o FileOf(fs[k - 1], kind)

\* the records of the source whose write of the given kind is done
Through(kinds) == SubSeq(data, 1, IF pc \in kinds THEN cursor - 1 ELSE cursor)

\* C15: an export that does not fail at the check of the path pulls the
\* records of the source one by one in order, at most size of them and
\* exactly size when it returns, whatever more the source holds; a record
\* is pulled only when the one before it is written, and the shards taken
\* together in index order hold every pulled record once, in pull order.
C15_ExactlyOnce ==
    /\ [](/\ cursor <= size
          /\ cursor <= Len(data)
          /\ pc = "done" => cursor = size
          /\ (pc # "start" /\ exc # "Exception") =>
                /\ AllShards("vectors", MaxShards) = VectorsFileOf(Through({"vec"}))
                /\ AllShards("metas", MaxShards) = MetasFileOf(Through({"vec", "meta"}))
                /\ AllShards("ids", MaxShards) = IdsFileOf(Through({"vec", "meta", "id"})))
    /\ [][/\ cursor' \in {cursor, cursor + 1}
          /\ cursor' = cursor + 1 =>
                /\ pc = "while" /\ pc' = "vec"
                /\ loc'.rec = data[cursor']
                /\ AllShards("ids", MaxShards) = IdsFileOf(SubSeq(data, 1, cursor))]_vars

C15_Witness ==
    /\ pc = "done"
    /\ shards = 2
    /\ size = 2
    /\ Len(data) = 3
    /\ cursor = 2
    /\ data[1] # data[2]
    /\ data[3] # data[2]
    /\ AllShards("ids", MaxShards) = IdsFileOf(SubSeq(data, 1, 2))

\* C16: after a successful export every shard index below shards has its
\* directory with exactly the files ids, vectors and metas, and no other
\* index has one; a shard planned to receive no record has three files of
\* length zero, and each of its import sequences ends at its first pull
\* without an element and without an error.
C16_EveryShardMaterialised ==
    pc = "done" =>
        /\ \A k \in ShardIds : fs[k].dir <=> k \in Used
        /\ \A k \in Used :
              /\ fs[k].has = FileNames
              /\ Planned(k) = 0 =>
                    /\ fs[k].ids = <<>> /\ fs[k].vectors = <<>> /\ fs[k].metas = <<>>
                    /\ \A kind \in FileNames :
                          /\ CanOpen(fs[k], kind)
                          /\ GenStep(kind, FileOf(fs[k], kind), 1) = Stop(1)

C16_Witness ==
    /\ pc = "done"
    /\ shards = 2
    /\ size = 0
    /\ Len(data) > 0
    /\ \A k \in Used : fs[k] = GetFileHandlers(NewDir)
    /\ ReadAll(fs[1], "vectors") = [out |-> <<>>, end |-> "stop"]

\* a line of a text file without the line break that ends it
WithoutNewline(line) ==
    IF line # <<>> /\ line[Len(line)] \in {"\n", "\r"}
    THEN IF Len(line) >= 2 /\ line[Len(line) - 1] = "\r" /\ line[Len(line)] = "\n"
         THEN SubSeq(line, 1, Len(line) - 2)
         ELSE SubSeq(line, 1, Len(line) - 1)
    ELSE line

\* the lines of a text file from pos on, each without its line break
RECURSIVE LinesOf(_, _)
LinesOf(text, pos) ==
    IF pos > Len(text) THEN <<>>
    ELSE LET e == LineEnd(text, pos)
         IN  <<WithoutNewline(SubSeq(text, pos, e))>> \o LinesOf(text, e + 1)

\* C17: the ids sequence of an exported shard yields, for each line of the
\* ids file in order, that line with nothing but its line break removed,
\* spaces and tabs at either end of an id included.
C17_IdsVerbatim ==
    pc = "done" =>
        \A k \in Used :
            ReadAll(fs[k], "ids") = [out |-> LinesOf(fs[k].ids, 1), end |-> "stop"]

\* a generator of this kind on file f at position pos ends (is exhausted
\* or raises) within the given number of pulls
RECURSIVE EndsWithin(_, _, _, _)
EndsWithin(kind, f, pos, pulls) ==
    IF pulls = 0 THEN FALSE
    ELSE LET r == GenStep(kind, f, pos)
         IN  r.kind # "yield" \/ EndsWithin(kind, f, r.pos, pulls - 1)

\* C18: whatever a shard's file holds, whole or cut short anywhere, an
\* import sequence on it has read no further than the end of the file, ends
\* or raises within as many pulls as characters or bytes are left plus one,
\* and every pull that yields an element leaves the sequence at a position
\* further on in the file.
C18_ImportSequencesFinite ==
    /\ [](\A c \in Made : \A w \in Which :
            LET g == GenOf(gens, c, w)
                d == fs[gens[c].shard]
                f == FileOf(d, KindOf(c, w))
            IN  /\ g.pos <= Len(f) + 1
                /\ Len(g.out) <= Len(f)
                /\ (g.st = "created" /\ ~CanOpen(d, KindOf(c, w)))
                      => NextOf(g, KindOf(c, w), d).st = "closed"
                /\ (g.st # "closed" /\ CanOpen(d, KindOf(c, w)))
                      => EndsWithin(KindOf(c, w), f, g.pos, Len(f) + 2 - g.pos))
    /\ [][\A c \in Calls : \A w \in Which :
            Len(GenOf(gens', c, w).out) > Len(GenOf(gens, c, w).out)
                => GenOf(gens', c, w).pos > GenOf(gens, c, w).pos]_vars

C18_Witness ==
    /\ gens[1].made
    /\ gens[1].kind = "vectors"
    /\ Len(fs[gens[1].shard].vectors) = 13
    /\ Ended(gens[1].pay)
    /\ gens[1].pay.err = "none"
    /\ gens[1].pay.pos = 14
    /\ Len(gens[1].pay.out) = 2
    /\ Ended(gens[1].ids)

\* the generators that are suspended at a yield
Live == {<<c, w>> \in Made \X Which : GenOf(gens, c, w).st = "suspended"}

\* C19: the files open for reading are exactly those of the generators that
\* are suspended at a yield: a generator that was never pulled, one that is
\* exhausted, one that raised, one that was closed and one that was dropped
\* for a new import call hold no file; a file is opened only by the first
\* pull of its generator, and an import call opens none.
C19_HandleLifecycle ==
    /\ [](rh = Live)
    /\ [][\A c \in Calls : \A w \in Which :
            /\ (<<c, w>> \in rh' /\ <<c, w>> \notin rh) =>
                  /\ GenOf(gens, c, w).st = "created"
                  /\ GenOf(gens', c, w).st = "suspended"
                  /\ Len(GenOf(gens', c, w).out) = 1
            /\ (gens'[c] # gens[c] /\ gens'[c].ids = NewGen /\ gens'[c].pay = NewGen) =>
                  (<<c, "ids">> \notin rh' /\ <<c, "pay">> \notin rh')
            /\ (GenOf(gens', c, w).st = "closed" /\ GenOf(gens, c, w).st = "suspended") =>
                  (<<c, w>> \in rh /\ <<c, w>> \notin rh')]_vars

C19_Witness ==
    /\ gens[1].made
    /\ gens[1].kind = "metas"
    /\ gens[1].ids.st = "suspended"
    /\ Ended(gens[1].pay)
    /\ Len(gens[1].pay.out) = 2
    /\ rh = {<<1, "ids">>}

====
